---- MODULE Spec2Model ----
(***************************************************************************)
(* be_scan: generate_BE_guides (src/be_scan/sgrna/generate_guides.py).     *)
(*                                                                         *)
(* The function is modelled statement by statement.  pc names the next     *)
(* statement to run, locals is the function's frame (arguments and local   *)
(* variables, a name being in DOMAIN locals once it is bound), gene is the *)
(* GeneForCRISPR object (an attribute being in DOMAIN gene once it is      *)
(* set), raised is the exception that ended the call, csv_files are the    *)
(* tables written by to_csv and returned is the value handed back.         *)
(*                                                                         *)
(* Python values that meet values of another type (the cells of a row, an  *)
(* optional argument) carry their type: PyStr, PyInt, PyTuple, PyNone.  A    *)
(* str of bases is a sequence of one-character strings, a fixed label      *)
(* ("sense", "Exon") a string; positions in the source are 0-based, TLA+   *)
(* sequences are 1-based.                                                  *)
(***************************************************************************)
EXTENDS Integers, Sequences, FiniteSets, TLC

VARIABLES pc, gene_file, gene, locals, raised, csv_files, returned

vars == <<pc, gene_file, gene, locals, raised, csv_files, returned>>

(***************************************************************************)
(* Bounds of the model.                                                    *)
(***************************************************************************)
\* window length of find_all_guides (its default, scaled down)
GuideLen == 3
\* longest gene sequence read from the gene file
MaxGeneLen == 4
\* largest w1 - w0 among the window arguments tried
WinSpan == 1

(***************************************************************************)
(* Python values.                                                          *)
(***************************************************************************)
PyNone == [type |-> "NoneType"]
PyStr(s) == [type |-> "str", val |-> s]
PyInt(n) == [type |-> "int", val |-> n]
PyTuple(t) == [type |-> "tuple", val |-> t]

Min(a, b) == IF a < b THEN a ELSE b
Max(a, b) == IF a > b THEN a ELSE b

\* s[lo:hi] of a Python sequence: negative indices count from the end,
\* both ends are clipped to the sequence
PySlice(s, lo, hi) ==
    LET n == Len(s)
        l == IF lo < 0 THEN Max(lo + n, 0) ELSE Min(lo, n)
        h == IF hi < 0 THEN Max(hi + n, 0) ELSE Min(hi, n)
    IN  IF h <= l THEN << >> ELSE [i \in 1..(h - l) |-> s[l + i]]

\* s[-k:] of a Python sequence, k > 0
PySuffix(s, k) == PySlice(s, Len(s) - Min(k, Len(s)), Len(s))

\* c in s, c one character
PyIn(c, s) == \E i \in 1..Len(s) : s[i] = c

UpperChars == {"A", "C", "G", "T"}
LowerChars == {"a", "c", "g", "t"}

\* str.isupper(): at least one cased character and no lowercase one
isupper(s) ==
    /\ \E i \in 1..Len(s) : s[i] \in UpperChars
    /\ \A i \in 1..Len(s) : s[i] \notin LowerChars

(***************************************************************************)
(* be_scan.sgrna._genomic_ (not among the source files; from the spec,     *)
(* section 4.1).                                                           *)
(***************************************************************************)
bases == {"A", "C", "G", "T"}

cas_key ==
    [Sp |-> <<"N", "G", "G">>, SpG |-> <<"N", "G", "N">>, SpRY |-> <<"N", "N", "N">>]

complements ==
    [c \in UpperChars \cup LowerChars |->
        CASE c = "A" -> "T" [] c = "T" -> "A" [] c = "C" -> "G" [] c = "G" -> "C"
          [] c = "a" -> "t" [] c = "t" -> "a" [] c = "c" -> "g" [] c = "g" -> "c"]

\* the reverse complement, the case of each base kept
rev_complement(comp, seq) ==
    [i \in 1..Len(seq) |-> comp[seq[Len(seq) + 1 - i]]]

\* the bases one PAM character stands for, in either case
PAMClass(ch) ==
    CASE ch = "A" -> {"A", "a"}
      [] ch = "C" -> {"C", "c"}
      [] ch = "G" -> {"G", "g"}
      [] ch = "T" -> {"T", "t"}
      [] ch = "R" -> {"A", "a", "G", "g"}
      [] ch = "Y" -> {"C", "c", "T", "t"}
      [] ch = "N" -> UpperChars \cup LowerChars

\* the compiled PAM: one class of bases per position
process_PAM(PAM) == [i \in 1..Len(PAM) |-> PAMClass(PAM[i])]

\* PAM_regex.match(s), s no longer than the pattern
RegexMatch(PAM_regex, s) ==
    /\ Len(s) = Len(PAM_regex)
    /\ \A i \in 1..Len(s) : s[i] \in PAM_regex[i]

(***************************************************************************)
(* be_scan.sgrna._gene_ (not among the source files; from the spec,        *)
(* sections 3 and 4.2).  A candidate guide is the list                     *)
(* [seq, frame, chr_pos, gene_pos, exon], the five fields the column names *)
(* of generate_BE_guides leave to it.                                      *)
(***************************************************************************)
IsExonAt(seq, p) == seq[p + 1] \in UpperChars

\* the positions where a run of uppercase (exon) or lowercase (intron)
\* bases begins
RunStarts(seq) ==
    {p \in 0..(Len(seq) - 1) : p = 0 \/ IsExonAt(seq, p) # IsExonAt(seq, p - 1)}

\* the maximal runs of exon and intron bases, in order
parse_exons(seq) ==
    LET starts == RunStarts(seq)
    IN  [k \in 1..Cardinality(starts) |->
            LET s == CHOOSE p \in starts : Cardinality({q \in starts : q < p}) = k - 1
                later == {q \in starts : q > s}
                e == IF later = {} THEN Len(seq) - 1
                     ELSE (CHOOSE q \in later : \A r \in later : q <= r) - 1
            IN  [kind |-> IF IsExonAt(seq, s) THEN "exon" ELSE "intron",
                 start |-> s, end |-> e]]

\* exon numbering counts the uppercase runs only: the number of exons that
\* start at or before p
ExonIndexAt(exons, p) ==
    Cardinality({k \in 1..Len(exons) : exons[k].kind = "exon" /\ exons[k].start <= p})

\* the coding frame cycles 0, 1, 2 over the exonic bases; an intronic base has none
FrameAt(seq, p) ==
    IF IsExonAt(seq, p)
    THEN Cardinality({q \in 0..(p - 1) : IsExonAt(seq, q)}) % 3
    ELSE -1

\* per-position metadata; no offset is supplied, so chr_pos is gene_pos
extract_metadata(seq, exons) ==
    [p \in 0..(Len(seq) - 1) |->
        [chr_pos |-> p, gene_pos |-> p,
         frame |-> FrameAt(seq, p), exon |-> ExonIndexAt(exons, p)]]

Candidate(s, m) ==
    <<PyStr(s), PyInt(m.frame), PyInt(m.chr_pos), PyInt(m.gene_pos), PyInt(m.exon)>>

NumWindows(seq, n) == Max(Len(seq) - n + 1, 0)

\* forward candidates: anchored at the first base of the window
find_fwd_guides(seq, meta, n) ==
    [k \in 1..NumWindows(seq, n) |->
        Candidate(PySlice(seq, k - 1, k - 1 + n), meta[k - 1])]

\* reverse candidates: the reverse complement of the window, anchored at
\* its last base
find_rev_guides(seq, meta, n) ==
    [k \in 1..NumWindows(seq, n) |->
        Candidate(rev_complement(complements, PySlice(seq, k - 1, k - 1 + n)),
                  meta[k - 1 + n - 1])]

(***************************************************************************)
(* be_scan.sgrna._guides_ (not among the source files; from the spec,      *)
(* section 4.3).                                                           *)
(***************************************************************************)
\* the PAM matches the last len(PAM) bases of the candidate's sequence and
\* edit[0] is among the bases at window positions w0..w1 (0-based, inclusive)
filter_guide(g, PAM_regex, PAM, edit, window) ==
    /\ RegexMatch(PAM_regex, PySuffix(g[1].val, Len(PAM)))
    /\ PyIn(edit[1], PySlice(g[1].val, window[1], window[2] + 1))

\* the first of every group of candidates with the same (sequence, anchor)
filter_repeats(results) ==
    LET first(k) == \A j \in 1..(k - 1) :
                        ~(/\ results[j].val[1] = results[k].val[1]
                          /\ results[j].val[3] = results[k].val[3])
        keep == {k \in 1..Len(results) : first(k)}
        RECURSIVE Pick(_)
        Pick(k) == IF k > Len(results) THEN << >>
                   ELSE (IF k \in keep THEN <<results[k]>> ELSE << >>) \o Pick(k + 1)
    IN  Pick(1)

(***************************************************************************)
(* generate_BE_guides: helpers of the statements.                          *)
(***************************************************************************)
NoError == [type |-> "none", line |-> 0]
Error(t, l) == [type |-> t, line |-> l]

\* name = value in a frame or on an object
Bind(rec, name, value) ==
    [x \in DOMAIN rec \cup {name} |-> IF x = name THEN value ELSE rec[x]]

\* the statements in program order; pc is the next one to run
Statements ==
    <<"create_gene", "parse_exons", "extract_metadata", "find_all_guides",
      "check_cas_type", "check_edit", "process_PAM", "check_window",
      "filter_fwd", "filter_rev", "filter_repeats", "annotate_fwd",
      "annotate_rev", "build_df", "drop_duplicates", "to_csv", "return", "done">>

StatementIndex(s) == CHOOSE i \in 1..Len(Statements) : Statements[i] = s

\* list_copy without the copy: the list is candidate number i of the gene itself
list_alias(g, i) == [ref |-> i, val |-> g]

\* g.copy(): a new list with the elements of candidate number i of the gene;
\* ref = 0 says the list is no object of the gene
list_copy(g, i) == [ref |-> 0, val |-> g]

\* [g.copy() for g in guides if filter_guide(g, ...)]
RECURSIVE FilterFrom(_, _, _, _, _, _)
FilterFrom(guides, k, PAM_regex, PAM, edit, window) ==
    IF k > Len(guides) THEN << >>
    ELSE (IF filter_guide(guides[k], PAM_regex, PAM, edit, window)
          THEN <<list_copy(guides[k], k)>> ELSE << >>)
         \o FilterFrom(guides, k + 1, PAM_regex, PAM, edit, window)

\* the six appends of the forward loop (lines 117-122)
annotate_fwd(x, strand, gene_name, window) ==
    LET x5 == Append(x, x[1])
        x6 == Append(x5, PyStr("sense"))
        x7 == Append(x6, PyStr(strand))
        x8 == Append(x7, PyTuple(<<x[3].val + window[1], x[3].val + window[2]>>))
        x9 == Append(x8, PyStr(gene_name))
    IN  Append(x9, IF isupper(PySlice(x9[6].val, window[1], window[2] + 1))
                   THEN PyStr("Exon") ELSE PyStr("Exon/Intron"))

\* annotate_rev with the window as (anchor + w0, anchor - w1)
annotate_rev_mixed(x, strand, gene_name, window) ==
    LET x5 == Append(x, PyStr(rev_complement(complements, x[1].val)))
        x6 == Append(x5, PyStr("antisense"))
        x7 == Append(x6, PyStr(strand))
        x8 == Append(x7, PyTuple(<<x[3].val + window[1], x[3].val - window[2]>>))
        x9 == Append(x8, PyStr(gene_name))
    IN  Append(x9, IF isupper(PySlice(x9[6].val, window[1], window[2] + 1))
                   THEN PyStr("Exon") ELSE PyStr("Exon/Intron"))

\* the six appends of the reverse loop (lines 124-129)
annotate_rev(x, strand, gene_name, window) ==
    LET x5 == Append(x, PyStr(rev_complement(complements, x[1].val)))
        x6 == Append(x5, PyStr("antisense"))
        x7 == Append(x6, PyStr(strand))
        x8 == Append(x7, PyTuple(<<x[3].val - window[1], x[3].val - window[2]>>))
        x9 == Append(x8, PyStr(gene_name))
    IN  Append(x9, IF isupper(PySlice(x9[6].val, window[1], window[2] + 1))
                   THEN PyStr("Exon") ELSE PyStr("Exon/Intron"))

column_names ==
    <<"sgRNA_seq", "starting_frame", "chr_pos", "gene_pos", "coding_seq", "exon",
      "sgRNA_strand", "gene_strand", "editing_window", "gene", "win_overlap">>

\* the position of a column label
ColumnIndex(columns, name) == CHOOSE i \in 1..Len(columns) : columns[i] = name

\* df[name] at row r
Cell(df, r, name) == df.data[r][ColumnIndex(df.columns, name)]

\* df.duplicated(subset=name, keep=False): the rows whose value in column
\* name is the value of another row
duplicated(df, name) ==
    [r \in 1..Len(df.data) |->
        \E q \in 1..Len(df.data) : q # r /\ Cell(df, q, name) = Cell(df, r, name)]

\* df[~mask]
RECURSIVE RowsFrom(_, _, _)
RowsFrom(data, mask, r) ==
    IF r > Len(data) THEN << >>
    ELSE (IF mask[r] THEN << >> ELSE <<data[r]>>) \o RowsFrom(data, mask, r + 1)

drop_rows(df, mask) == [columns |-> df.columns, data |-> RowsFrom(df.data, mask, 1)]

(***************************************************************************)
(* The inputs tried.                                                       *)
(***************************************************************************)
GeneAlphabet == {"C", "G", "c"}

\* the sequence of the gene file: every string of up to MaxGeneLen bases
GeneFiles == UNION {[1..n -> GeneAlphabet] : n \in 0..MaxGeneLen}

CasTypes == {"SpRY", "Cas12a"}

PAMs == {PyNone, PyStr(<<"G", "G">>)}

EditPairs == {<<"C", "T">>, <<"X", "T">>, <<"C", "X">>}

Windows ==
    {w \in ((-1)..GuideLen) \X (0..(GuideLen + 1)) : w[2] - w[1] \in (-1)..WinSpan}

(***************************************************************************)
(* generate_BE_guides, statement by statement.                             *)
(***************************************************************************)
Init ==
    /\ pc = "create_gene"
    /\ gene_file \in GeneFiles
    /\ gene = PyNone
    /\ \E ct \in CasTypes, e \in EditPairs, p \in PAMs, w \in Windows :
          locals = [gene_name |-> "gene", cas_type |-> ct,
                    edit_from |-> e[1], edit_to |-> e[2], PAM |-> p, window |-> w]
    /\ raised = NoError
    /\ csv_files = << >>
    /\ returned = PyNone

Running(stmt) == pc = stmt /\ raised = NoError

Goto(stmt) == pc' = stmt /\ raised' = NoError

Raise(type, line) == pc' = pc /\ raised' = Error(type, line)

\* line 77: gene = GeneForCRISPR(filepath=gene_filepath)
CreateGene ==
    /\ Running("create_gene")
    /\ gene' = [type |-> "GeneForCRISPR", seq |-> gene_file]
    /\ Goto("parse_exons")
    /\ UNCHANGED <<gene_file, locals, csv_files, returned>>

\* line 79: gene.parse_exons()
ParseExons ==
    /\ Running("parse_exons")
    /\ IF Len(gene.seq) = 0
       THEN Raise("EmptySequenceError", 79) /\ UNCHANGED gene
       ELSE gene' = Bind(gene, "exons", parse_exons(gene.seq)) /\ Goto("extract_metadata")
    /\ UNCHANGED <<gene_file, locals, csv_files, returned>>

\* line 81: gene.extract_metadata()
ExtractMetadata ==
    /\ Running("extract_metadata")
    /\ gene' = Bind(Bind(gene, "meta", extract_metadata(gene.seq, gene.exons)),
                    "strand", "plus")
    /\ Goto("find_all_guides")
    /\ UNCHANGED <<gene_file, locals, csv_files, returned>>

\* line 82: gene.find_all_guides()
FindAllGuides ==
    /\ Running("find_all_guides")
    /\ gene' = Bind(Bind(gene, "fwd_guides", find_fwd_guides(gene.seq, gene.meta, GuideLen)),
                    "rev_guides", find_rev_guides(gene.seq, gene.meta, GuideLen))
    /\ Goto("check_cas_type")
    /\ UNCHANGED <<gene_file, locals, csv_files, returned>>

\* CheckCasType without the raise
CheckCasType_NoRaise ==
    /\ Running("check_cas_type")
    /\ Goto("check_edit")
    /\ UNCHANGED <<gene_file, gene, locals, csv_files, returned>>

\* lines 86-87: if cas_type not in list(cas_key.keys()): raise Exception(...)
CheckCasType ==
    /\ Running("check_cas_type")
    /\ IF locals.cas_type \notin DOMAIN cas_key
       THEN Raise("Exception", 87)
       ELSE Goto("check_edit")
    /\ UNCHANGED <<gene_file, gene, locals, csv_files, returned>>

\* CheckEdit without the assert
CheckEdit_NoAssert ==
    /\ Running("check_edit")
    /\ locals' = Bind(locals, "edit", <<locals.edit_from, locals.edit_to>>)
    /\ Goto("process_PAM")
    /\ UNCHANGED <<gene_file, gene, csv_files, returned>>

\* lines 90-91: assert edit_from in bases and edit_to in bases; edit = ...
CheckEdit ==
    /\ Running("check_edit")
    /\ IF locals.edit_from \in bases /\ locals.edit_to \in bases
       THEN /\ locals' = Bind(locals, "edit", <<locals.edit_from, locals.edit_to>>)
            /\ Goto("process_PAM")
       ELSE Raise("AssertionError", 90) /\ UNCHANGED locals
    /\ UNCHANGED <<gene_file, gene, csv_files, returned>>

\* lines 94-96: if PAM is None: PAM = cas_key[cas_type]; PAM_regex = process_PAM(PAM)
ProcessPAM ==
    /\ Running("process_PAM")
    /\ LET PAM == IF locals.PAM = PyNone
                  THEN PyStr(cas_key[locals.cas_type]) ELSE locals.PAM
       IN  locals' = Bind(Bind(locals, "PAM", PAM), "PAM_regex", process_PAM(PAM.val))
    /\ Goto("check_window")
    /\ UNCHANGED <<gene_file, gene, csv_files, returned>>

\* lines 99-100: the two asserts on window; gene.fwd_guides[0] of a gene
\* with no candidate is an IndexError
CheckWindow ==
    /\ Running("check_window")
    /\ LET window == locals.window
       IN  IF ~(window[2] >= window[1] /\ window[1] >= 0)
           THEN Raise("AssertionError", 99)
           ELSE IF Len(gene.fwd_guides) = 0
           THEN Raise("IndexError", 100)
           ELSE IF ~(window[2] <= Len(gene.fwd_guides[1][1].val))
           THEN Raise("AssertionError", 100)
           ELSE Goto("filter_fwd")
    /\ UNCHANGED <<gene_file, gene, locals, csv_files, returned>>

\* line 104: fwd_results = [g.copy() for g in gene.fwd_guides if filter_guide(...)]
FilterFwd ==
    /\ Running("filter_fwd")
    /\ locals' = Bind(locals, "fwd_results",
                      FilterFrom(gene.fwd_guides, 1, locals.PAM_regex, locals.PAM.val,
                                 locals.edit, locals.window))
    /\ Goto("filter_rev")
    /\ UNCHANGED <<gene_file, gene, csv_files, returned>>

\* line 108: rev_results = [g.copy() for g in gene.rev_guides if filter_guide(...)]
FilterRev ==
    /\ Running("filter_rev")
    /\ locals' = Bind(locals, "rev_results",
                      FilterFrom(gene.rev_guides, 1, locals.PAM_regex, locals.PAM.val,
                                 locals.edit, locals.window))
    /\ Goto("filter_repeats")
    /\ UNCHANGED <<gene_file, gene, csv_files, returned>>

\* lines 111-113: fwd_results = filter_repeats(fwd_results), and rev_results
FilterRepeats ==
    /\ Running("filter_repeats")
    /\ locals' = Bind(Bind(locals, "fwd_results", filter_repeats(locals.fwd_results)),
                      "rev_results", filter_repeats(locals.rev_results))
    /\ Goto("annotate_fwd")
    /\ UNCHANGED <<gene_file, gene, csv_files, returned>>

\* the candidates of the gene after a loop of appends over results: a list
\* of results that is a candidate of the gene (ref # 0) grew in place
WrittenThrough(guides, annotated) ==
    [i \in 1..Len(guides) |->
        IF \E k \in 1..Len(annotated) : annotated[k].ref = i
        THEN annotated[CHOOSE k \in 1..Len(annotated) : annotated[k].ref = i].val
        ELSE guides[i]]

\* lines 116-122: for x in fwd_results: x.append(...) six times
AnnotateFwd ==
    /\ Running("annotate_fwd")
    /\ LET out == [k \in 1..Len(locals.fwd_results) |->
                     [ref |-> locals.fwd_results[k].ref,
                      val |-> annotate_fwd(locals.fwd_results[k].val, gene.strand,
                                           locals.gene_name, locals.window)]]
       IN  /\ locals' = Bind(locals, "fwd_results", out)
           /\ gene' = Bind(gene, "fwd_guides", WrittenThrough(gene.fwd_guides, out))
    /\ Goto("annotate_rev")
    /\ UNCHANGED <<gene_file, csv_files, returned>>

\* lines 123-129: for x in rev_results: x.append(...) six times
AnnotateRev ==
    /\ Running("annotate_rev")
    /\ LET out == [k \in 1..Len(locals.rev_results) |->
                     [ref |-> locals.rev_results[k].ref,
                      val |-> annotate_rev(locals.rev_results[k].val, gene.strand,
                                           locals.gene_name, locals.window)]]
       IN  /\ locals' = Bind(locals, "rev_results", out)
           /\ gene' = Bind(gene, "rev_guides", WrittenThrough(gene.rev_guides, out))
    /\ Goto("build_df")
    /\ UNCHANGED <<gene_file, csv_files, returned>>

\* the lists of a list of results
Values(results) == [k \in 1..Len(results) |-> results[k].val]

\* line 142: df = pd.DataFrame(fwd_results + rev_results, columns=column_names);
\* rows of another length than column_names are a ValueError
BuildDF ==
    /\ Running("build_df")
    /\ LET rows == Values(locals.fwd_results) \o Values(locals.rev_results)
       IN  IF \E r \in 1..Len(rows) : Len(rows[r]) # Len(column_names)
           THEN Raise("ValueError", 142) /\ UNCHANGED locals
           ELSE /\ locals' = Bind(locals, "df", [columns |-> column_names, data |-> rows])
                /\ Goto("drop_duplicates")
    /\ UNCHANGED <<gene_file, gene, csv_files, returned>>

\* lines 143-144: duplicate_rows = df.duplicated(subset='coding_seq', keep=False);
\* df_no_duplicates = df[~duplicate_rows]
DropDuplicates ==
    /\ Running("drop_duplicates")
    /\ LET duplicate_rows == duplicated(locals.df, "coding_seq")
       IN  locals' = Bind(Bind(locals, "duplicate_rows", duplicate_rows),
                          "df_no_duplicates", drop_rows(locals.df, duplicate_rows))
    /\ Goto("to_csv")
    /\ UNCHANGED <<gene_file, gene, csv_files, returned>>

\* ToCsv writing the table as it was before the duplicates were dropped
ToCsv_BeforeDedup ==
    /\ Running("to_csv")
    /\ csv_files' = Append(csv_files, locals.df)
    /\ Goto("return")
    /\ UNCHANGED <<gene_file, gene, locals, returned>>

\* line 147: df_no_duplicates.to_csv(output_dir + output_name)
ToCsv ==
    /\ Running("to_csv")
    /\ csv_files' = Append(csv_files, locals.df_no_duplicates)
    /\ Goto("return")
    /\ UNCHANGED <<gene_file, gene, locals, returned>>

\* line 148: return df_no_duplicates
Return ==
    /\ Running("return")
    /\ returned' = locals.df_no_duplicates
    /\ Goto("done")
    /\ UNCHANGED <<gene_file, gene, locals, csv_files>>

Next ==
    \/ CreateGene \/ ParseExons \/ ExtractMetadata \/ FindAllGuides
    \/ CheckCasType \/ CheckEdit \/ ProcessPAM \/ CheckWindow
    \/ FilterFwd \/ FilterRev \/ FilterRepeats
    \/ AnnotateFwd \/ AnnotateRev
    \/ BuildDF \/ DropDuplicates \/ ToCsv \/ Return

Spec == Init /\ [][Next]_vars

(***************************************************************************)
(* What the claims speak of.                                               *)
(***************************************************************************)
\* the statement has run to its end
Passed(stmt) == StatementIndex(pc) > StatementIndex(stmt)

Bound(name) == name \in DOMAIN locals

Enumerated == "fwd_guides" \in DOMAIN gene

Rows(df) == 1..Len(df.data)

\* the sense-strand sequence of the guide of row r: the guide's sequence for
\* a sense guide, its reverse complement for an antisense guide
SenseSeq(df, r) ==
    IF Cell(df, r, "sgRNA_strand") = PyStr("sense")
    THEN Cell(df, r, "sgRNA_seq").val
    ELSE rev_complement(complements, Cell(df, r, "sgRNA_seq").val)

\* the exon number of the anchor of the guide of row r
AnchorExon(df, r) == gene.meta[Cell(df, r, "gene_pos").val].exon

\* the rows of df whose sense-strand sequence is that of no other row
UniqueSenseRows(df) ==
    RowsFrom(df.data,
             [r \in Rows(df) |-> \E q \in Rows(df) : q # r /\ SenseSeq(df, q) = SenseSeq(df, r)],
             1)

\* C1 (as claimed): the final table holds exactly the rows of the
\* concatenated table whose coding sequence (the sense-strand sequence of
\* the guide) occurs on no other row.
C1_DedupByCodingSequence ==
    Bound("df_no_duplicates") =>
        locals.df_no_duplicates.data = UniqueSenseRows(locals.df)

\* C2 (as claimed): with an explicit PAM the Cas type is never the reason of
\* a failure, and the PAM matched is the explicit one; the unknown-Cas-type
\* failure needs a cas_type outside the table and no explicit PAM.
C2_ExplicitPAMWins ==
    raised = Error("Exception", 87) =>
        locals.PAM = PyNone /\ locals.cas_type \notin DOMAIN cas_key

ValidationErrors ==
    {Error("Exception", 87), Error("AssertionError", 90),
     Error("AssertionError", 99), Error("AssertionError", 100)}

\* C3 (as claimed): the unknown-Cas-type error, and every other validation
\* failure, is raised before find_all_guides has enumerated the candidates.
C3_ValidationBeforeEnumeration ==
    raised \in ValidationErrors => ~Enumerated

\* C3 (amended): a cas_type outside the table with no explicit PAM never
\* gets past the Cas-type check, and every validation failure is raised
\* after find_all_guides has enumerated the candidates and before any
\* candidate is filtered.
C3_ValidationBeforeFiltering ==
    /\ (locals.cas_type \notin DOMAIN cas_key /\ locals.PAM = PyNone)
          => ~Passed("check_cas_type")
    /\ raised \in ValidationErrors =>
          Enumerated /\ ~Bound("fwd_results") /\ ~Bound("rev_results")

C3_Witness ==
    /\ raised = Error("Exception", 87)
    /\ locals.PAM = PyNone
    /\ Len(gene.fwd_guides) > 0

\* C4: a run that failed has written no file; one file is written at most,
\* and it is the table cross-strand deduplication produced.
C4_NoPartialOutput ==
    /\ raised # NoError => csv_files = << >>
    /\ Len(csv_files) <= 1
    /\ csv_files # << >> =>
          Bound("df_no_duplicates") /\ csv_files[1] = locals.df_no_duplicates

C4_Witness ==
    /\ raised = Error("AssertionError", 99)
    /\ locals.window[2] < locals.window[1]
    /\ Len(gene.fwd_guides) > 0
    /\ csv_files = << >>

\* C5 (as claimed): the run gets past the validation of the window only if
\* w1 >= w0 >= 0 and w1 < L, L the length of a candidate's sequence.
C5_WindowWithinGuide ==
    Passed("check_window") =>
        /\ locals.window[2] >= locals.window[1]
        /\ locals.window[1] >= 0
        /\ locals.window[2] < Len(gene.fwd_guides[1][1].val)

\* C6 speaks of what filter_guide tests (the PAM at the end of the guide,
\* edit_from at the window positions w0..w1).  filter_guide is code of
\* be_scan.sgrna._guides_, which is not among the source files: lines 104
\* and 108 say only that the survivors are the candidates it accepts.  The
\* filter_guide above follows section 4.3 of the spec, so a formula about
\* its survivors would say nothing of the program, and none is stated.

\* C7 (as claimed): in every row of the returned table the value under
\* coding_seq is the sense-strand sequence of the guide and the value under
\* exon is the exon number of the guide's anchor.
C7_ColumnsAligned ==
    pc = "done" =>
        \A r \in Rows(returned) :
            /\ Cell(returned, r, "coding_seq") = PyStr(SenseSeq(returned, r))
            /\ Cell(returned, r, "exon") = PyInt(AnchorExon(returned, r))

WindowOf(df, r) ==
    LET a == Cell(df, r, "chr_pos").val
    IN  IF Cell(df, r, "sgRNA_strand") = PyStr("sense")
        THEN PyTuple(<<a + locals.window[1], a + locals.window[2]>>)
        ELSE PyTuple(<<a - locals.window[1], a - locals.window[2]>>)

WindowAnnotated(df) ==
    \A r \in Rows(df) :
        /\ Cell(df, r, "editing_window") = WindowOf(df, r)
        /\ (Cell(df, r, "sgRNA_strand") = PyStr("antisense")
                /\ locals.window[1] < locals.window[2])
              => Cell(df, r, "editing_window").val[1] > Cell(df, r, "editing_window").val[2]

\* C8: the editing_window of a forward guide anchored at a is (a + w0, a + w1),
\* that of a reverse guide (a - w0, a - w1), in that order: for w0 < w1 the
\* first component of a reverse guide's pair is the greater.
C8_EditingWindow ==
    /\ Bound("df") => WindowAnnotated(locals.df)
    /\ Bound("df_no_duplicates") => WindowAnnotated(locals.df_no_duplicates)

C8_Witness ==
    /\ pc = "done"
    /\ locals.window[1] < locals.window[2]
    /\ \E r \in Rows(returned) : Cell(returned, r, "sgRNA_strand") = PyStr("antisense")
    /\ \E r \in Rows(returned) : Cell(returned, r, "sgRNA_strand") = PyStr("sense")

\* C9 (as claimed): win_overlap is "Exon" exactly when the bases at the
\* window positions w0..w1 of the guide's own sequence, the positions the
\* filter looks at, are all uppercase, and "Exon/Intron" otherwise.
C9_OverlapOfOwnWindow ==
    Bound("df") =>
        \A r \in Rows(locals.df) :
            Cell(locals.df, r, "win_overlap") =
                IF isupper(PySlice(Cell(locals.df, r, "sgRNA_seq").val,
                                   locals.window[1], locals.window[2] + 1))
                THEN PyStr("Exon") ELSE PyStr("Exon/Intron")

\* the orchestrator's states, by what the run has produced
GeneParsed == "meta" \in DOMAIN gene
GuidesEnumerated == Enumerated
GuidesFiltered == Bound("df")
Deduplicated == Bound("df_no_duplicates")
Exported == csv_files # << >>

Milestones == <<GeneParsed, GuidesEnumerated, GuidesFiltered, Deduplicated, Exported>>

Stage == Cardinality({i \in 1..Len(Milestones) : Milestones[i]})

Validated ==
    /\ locals.cas_type \in DOMAIN cas_key
    /\ Bound("edit") /\ locals.edit_from \in bases /\ locals.edit_to \in bases
    /\ Bound("PAM_regex") /\ locals.PAM # PyNone
    /\ locals.window[2] >= locals.window[1] /\ locals.window[1] >= 0
    /\ locals.window[2] <= GuideLen

StagesInOrder ==
    /\ \A i \in 2..Len(Milestones) : Milestones[i] => Milestones[i - 1]
    /\ (Bound("fwd_results") \/ Bound("rev_results")) => (GuidesEnumerated /\ Validated)
    /\ ~ENABLED Next => (raised # NoError \/ (Exported /\ returned = csv_files[1]))

\* C10: the run goes through Init, GeneParsed, GuidesEnumerated,
\* GuidesFiltered, Deduplicated, Exported one after the other, no state
\* skipped, repeated or taken back; every validation has passed before a
\* candidate is filtered; a run stops only in Exported or with an error.
C10_SequentialStages ==
    /\ []StagesInOrder
    /\ [][Stage' = Stage \/ Stage' = Stage + 1]_vars

C10_Witness ==
    /\ pc = "done"
    /\ Stage = 5
    /\ Len(returned.data) > 0

\* the candidate collections of the gene stay as they are over a step
CandidatesKept ==
    /\ gene.fwd_guides' = gene.fwd_guides
    /\ gene.rev_guides' = gene.rev_guides

\* the candidate collections of the gene are what find_all_guides built
AsEnumerated ==
    /\ gene.fwd_guides = find_fwd_guides(gene.seq, gene.meta, GuideLen)
    /\ gene.rev_guides = find_rev_guides(gene.seq, gene.meta, GuideLen)

\* a list of results with all its annotation fields appended
Annotated(x) == Len(x.val) = Len(column_names)

\* C11: once find_all_guides has enumerated them, the forward and reverse
\* candidate collections of the gene are changed by no later step: they
\* hold the candidates find_all_guides built, in that order, each with its
\* original fields and no appended annotation field; every list of results
\* is a copy, no candidate of the gene itself.
C11_GeneReadOnly ==
    /\ [][Enumerated => CandidatesKept]_vars
    /\ [](Enumerated => AsEnumerated)
    /\ [](\A name \in {"fwd_results", "rev_results"} :
            Bound(name) => \A k \in 1..Len(locals[name]) : locals[name][k].ref = 0)

\* both loops of appends have run over surviving candidates and the
\* cross-strand deduplication has dropped rows
C11_Witness ==
    /\ pc = "done"
    /\ \E k \in 1..Len(locals.fwd_results) : Annotated(locals.fwd_results[k])
    /\ \E k \in 1..Len(locals.rev_results) : Annotated(locals.rev_results[k])
    /\ Len(locals.df_no_duplicates.data) < Len(locals.df.data)

(***************************************************************************)
(* be_scan: compare_conds (src/be_scan/analysis/compare_conds.py).         *)
(*                                                                         *)
(* A specification of its own over the same variables: locals is the frame *)
(* of compare_conds, with the tables of the two csv files as the arguments *)
(* in_conds and in_comparisons; gene_file and gene are not used.  A table  *)
(* is its column labels and its rows, the values of a row in the order of  *)
(* the labels.                                                             *)
(***************************************************************************)
\* the most rows of the comparisons file
MaxComparisons == 2
\* the most rows of the conditions file
MaxRows == 1

\* the column labels of the conditions file
CondColumns == <<"a", "b">>

\* the values of its cells
CondValues == {0, 1}

\* the names a comparison gives its column: a condition's label or a new one
ComparisonNames == {"a", "x"}

\* the columns a comparison reads: a condition, or a label that is none
Treatments == {"a", "b", "x"}
Controls == {"a", "b"}

CondTables ==
    {[columns |-> CondColumns, data |-> d] :
        d \in UNION {[1..n -> [1..Len(CondColumns) -> CondValues]] : n \in 1..MaxRows}}

ComparisonLists ==
    UNION {[1..n -> ComparisonNames \X Treatments \X Controls] : n \in 0..MaxComparisons}

\* label in df.columns
HasColumn(df, label) == \E i \in 1..Len(df.columns) : df.columns[i] = label

\* df[label]: the values of the column, row by row
Column(df, label) ==
    [r \in 1..Len(df.data) |-> df.data[r][ColumnIndex(df.columns, label)]]

\* s1.sub(s2): the difference row by row
sub(s1, s2) == [r \in 1..Len(s1) |-> s1[r] - s2[r]]

\* df[label] = values: the column of that label gets the values, a label
\* the table has not becomes its new last column
SetColumn(df, label, values) ==
    IF HasColumn(df, label)
    THEN [columns |-> df.columns,
          data |-> [r \in 1..Len(df.data) |->
                      [c \in 1..Len(df.columns) |->
                          IF df.columns[c] = label THEN values[r] ELSE df.data[r][c]]]]
    ELSE [columns |-> Append(df.columns, label),
          data |-> [r \in 1..Len(df.data) |-> Append(df.data[r], values[r])]]

InitCompare ==
    /\ pc = "read_conds"
    /\ gene_file = << >>
    /\ gene = PyNone
    /\ \E t \in CondTables, c \in ComparisonLists, b \in BOOLEAN :
          locals = [in_comparisons |-> c, in_conds |-> t, return_df |-> b]
    /\ raised = NoError
    /\ csv_files = << >>
    /\ returned = PyNone

\* line 47: df_conds = pd.read_csv(in_conds)
ReadConds ==
    /\ Running("read_conds")
    /\ locals' = Bind(locals, "df_conds", locals.in_conds)
    /\ Goto("read_comparisons")
    /\ UNCHANGED <<gene_file, gene, csv_files, returned>>

\* lines 49-50: comparisons_df = pd.read_csv(in_comparisons);
\* comparisons_list = list(comparisons_df.itertuples(index=False, name=None));
\* next is the place of the for loop in the list
ReadComparisons ==
    /\ Running("read_comparisons")
    /\ locals' = Bind(Bind(locals, "comparisons_list", locals.in_comparisons), "next", 1)
    /\ Goto("for_comparison")
    /\ UNCHANGED <<gene_file, gene, csv_files, returned>>

\* lines 52-53, one turn of the loop:
\* for name, treatment, control in comparisons_list:
\*     df_conds[name] = df_conds[treatment].sub(df_conds[control])
\* df_conds[label] of a label the table has not is a KeyError
ForComparison ==
    /\ Running("for_comparison")
    /\ locals.next <= Len(locals.comparisons_list)
    /\ LET name == locals.comparisons_list[locals.next][1]
           treatment == locals.comparisons_list[locals.next][2]
           control == locals.comparisons_list[locals.next][3]
           df_conds == locals.df_conds
           frame == Bind(Bind(Bind(Bind(locals, "name", name), "treatment", treatment),
                              "control", control), "next", locals.next + 1)
       IN  IF HasColumn(df_conds, treatment) /\ HasColumn(df_conds, control)
           THEN /\ locals' = Bind(frame, "df_conds",
                                  SetColumn(df_conds, name,
                                            sub(Column(df_conds, treatment),
                                                Column(df_conds, control))))
                /\ Goto("for_comparison")
           ELSE /\ locals' = frame
                /\ Raise("KeyError", 53)
    /\ UNCHANGED <<gene_file, gene, csv_files, returned>>

\* line 52: the list is exhausted, the loop ends
EndFor ==
    /\ Running("for_comparison")
    /\ locals.next > Len(locals.comparisons_list)
    /\ Goto("to_csv")
    /\ UNCHANGED <<gene_file, gene, locals, csv_files, returned>>

\* lines 56-58: df_conds.to_csv(outpath / out_comps, index=False)
ToCsvCompare ==
    /\ Running("to_csv")
    /\ csv_files' = Append(csv_files, locals.df_conds)
    /\ Goto("return")
    /\ UNCHANGED <<gene_file, gene, locals, returned>>

\* lines 60-63: if return_df: return df_conds; else: return
ReturnCompare ==
    /\ Running("return")
    /\ returned' = IF locals.return_df THEN locals.df_conds ELSE PyNone
    /\ Goto("done")
    /\ UNCHANGED <<gene_file, gene, locals, csv_files>>

NextCompare ==
    \/ ReadConds \/ ReadComparisons \/ ForComparison \/ EndFor
    \/ ToCsvCompare \/ ReturnCompare

SpecCompare == InitCompare /\ [][NextCompare]_vars

\* comparison number k of the list reads two conditions of the input table
ReadsConditions(k) ==
    /\ HasColumn(locals.in_conds, locals.in_comparisons[k][2])
    /\ HasColumn(locals.in_conds, locals.in_comparisons[k][3])

\* the difference of the two conditions of comparison number k, as the
\* input table gives them
Difference(k) ==
    sub(Column(locals.in_conds, locals.in_comparisons[k][2]),
        Column(locals.in_conds, locals.in_comparisons[k][3]))

\* C12 (as claimed): in the table compare_conds writes, every comparison
\* (name, condition 1, condition 2) of the list has a column labelled name
\* whose value in each row is the row's condition 1 minus its condition 2
\* of the input conditions table, whatever the other comparisons of the
\* list are.
C12_ComparisonColumns ==
    csv_files # << >> =>
        \A k \in 1..Len(locals.in_comparisons) :
            ReadsConditions(k) =>
                /\ HasColumn(csv_files[1], locals.in_comparisons[k][1])
                /\ Column(csv_files[1], locals.in_comparisons[k][1]) = Difference(k)

====
